---------------------------- MODULE Spec2Model ----------------------------
(***************************************************************************)
(* Solin backend: the user-library subsystem (reading list, favorites,     *)
(* comments) as a state machine over the four tables of domain/models.py.  *)
(* Each route handler is one action; the handler's HTTP answer is kept in  *)
(* resp.  The tables live in the store configured in core/config.py (the   *)
(* default sqlite file), whose rules for row ids are modelled in NextId.   *)
(***************************************************************************)
EXTENDS Integers, Sequences, FiniteSets, TLC

VARIABLES
    users,        \* table users: set of User rows
    user_books,   \* table user_books: set of UserBook rows
    favorites,    \* table favorites: set of Favorite rows
    comments,     \* table comments: set of Comment rows
    now,          \* datetime.utcnow(), as a counter
    resp,         \* the last request handled and its answer
    pend,         \* add requests past their existence check, not yet committed
    after_remove, \* history: the last request re-added the pair the request before it removed
    deleted,      \* history: ids of the comments deleted so far
    settings,     \* core/config.py: the Settings object built at start-up
    tokens,       \* bearer tokens handed out by login and still held by clients
    issued_to     \* history: each token login handed out, with the user it was for

vars == <<users, user_books, favorites, comments, now, resp, pend, after_remove, deleted,
          settings, tokens, issued_to>>

----------------------------------------------------------------------------
(* Bounds of the model *)

\* rows the table under study may hold
MaxRows == 3
\* largest row id handed out
MaxId == 3
\* rows the reading list and the favorites may hold together, when both are studied
MaxEntries == 2
\* rows the comments table may hold
MaxComments == 2
\* add requests that may be in flight at once
MaxPending == 2

----------------------------------------------------------------------------
(* Values *)

ReadingStatus == {"want_to_read", "reading", "read"}

BookKeys == {"/works/OL1W", "/works/OL2W"}

Contents == {"x", "nice book"}

HTTP_200_OK == 200
HTTP_201_CREATED == 201
HTTP_204_NO_CONTENT == 204
HTTP_400_BAD_REQUEST == 400
HTTP_403_FORBIDDEN == 403
HTTP_404_NOT_FOUND == 404

HTTP_401_UNAUTHORIZED == 401
HTTP_422_UNPROCESSABLE == 422
HTTP_500_INTERNAL_SERVER_ERROR == 500

\* Settings.access_token_expire_minutes
access_token_expire_minutes == 30

\* Settings.secret_key
secret_key == "your-secret-key-change-in-production"

\* Settings() with no environment override
DefaultSettings ==
    [secret_key |-> secret_key, access_token_expire_minutes |-> access_token_expire_minutes]

\* Two registered users: the state after two successful register calls.
RegisteredUsers ==
    { [id |-> 1, email |-> "a@x.com", username |-> "alice", hashed_password |-> <<"bcrypt", "pw1">>],
      [id |-> 2, email |-> "b@x.com", username |-> "bob",   hashed_password |-> <<"bcrypt", "pw2">>] }

NoResp ==
    [op |-> "none", user |-> 0, key |-> "", id |-> 0, arg |-> "", code |-> 0, body |-> <<>>]

Response(op, uid, key, id, arg, code, body) ==
    [op |-> op, user |-> uid, key |-> key, id |-> id, arg |-> arg, code |-> code, body |-> body]

----------------------------------------------------------------------------
(* The store *)

MaxOf(S) == CHOOSE m \in S : \A x \in S : x <= m

\* Integer primary key of a sqlite table declared without AUTOINCREMENT:
\* one more than the largest id in the table at the time of the insert.
NextId(rows) == IF rows = {} THEN 1 ELSE MaxOf({r.id : r \in rows}) + 1

\* Mutant: the filter on the owner is missing.
UserBookQueryAnyUser(uid, key) == {b \in user_books : b.book_key = key}

\* db.query(UserBook).filter(user_id == uid, book_key == key)
UserBookQuery(uid, key) == {b \in user_books : b.user_id = uid /\ b.book_key = key}

\* Mutant: the filter on the owner is missing.
FavoriteQueryAnyUser(uid, key) == {f \in favorites : f.book_key = key}

\* db.query(Favorite).filter(user_id == uid, book_key == key)
FavoriteQuery(uid, key) == {f \in favorites : f.user_id = uid /\ f.book_key = key}

\* db.query(Comment).filter(Comment.id == comment_id)
CommentQuery(comment_id) == {c \in comments : c.id = comment_id}

NewUserBook(uid, key, status) ==
    [id |-> NextId(user_books), user_id |-> uid, book_key |-> key, status |-> status,
     added_at |-> now, updated_at |-> now]

NewFavorite(uid, key) ==
    [id |-> NextId(favorites), user_id |-> uid, book_key |-> key, added_at |-> now]

NewComment(uid, key, content) ==
    [id |-> NextId(comments), user_id |-> uid, book_key |-> key, content |-> content,
     created_at |-> now, updated_at |-> now]

\* Mutant: the rows in any order.
OrderedAnyhow(rows, col) ==
    { s \in [1..Cardinality(rows) -> rows] : \A i, j \in DOMAIN s : i # j => s[i] # s[j] }

\* The orders in which .order_by(col.desc()).all() may return rows: every
\* arrangement of the rows with col non-increasing (ties in any order).
OrderedDesc(rows, col) ==
    { s \in [1..Cardinality(rows) -> rows] :
        /\ \A i, j \in DOMAIN s : i # j => s[i] # s[j]
        /\ \A i, j \in DOMAIN s : i < j => s[i][col] >= s[j][col] }

----------------------------------------------------------------------------
(* Reading list: interface/api/routes/user_books.py *)

\* add_to_reading_list from "if existing:" on: the 400 answer, or db.add and
\* db.commit.  The user_books table declares no constraint on (user_id,
\* book_key), so the commit of a new row always succeeds.
\* Mutant: the existence check is ignored, the row is always inserted.
reading_list_commit_unchecked(uid, book_key, status, existing) ==
    LET user_book == NewUserBook(uid, book_key, status) IN
    /\ user_books' = user_books \cup {user_book}
    /\ resp' = Response("add_to_reading_list", uid, book_key, user_book.id, status,
                        HTTP_201_CREATED, <<user_book>>)

\* Mutant: a conflicting add answers 400 but overwrites the entry's status.
reading_list_commit_upsert(uid, book_key, status, existing) ==
    IF existing
    THEN /\ resp' = Response("add_to_reading_list", uid, book_key, 0, status,
                             HTTP_400_BAD_REQUEST, <<>>)
         /\ user_books' = {IF b.user_id = uid /\ b.book_key = book_key
                            THEN [b EXCEPT !.status = status] ELSE b : b \in user_books}
    ELSE LET user_book == NewUserBook(uid, book_key, status) IN
         /\ user_books' = user_books \cup {user_book}
         /\ resp' = Response("add_to_reading_list", uid, book_key, user_book.id, status,
                             HTTP_201_CREATED, <<user_book>>)

reading_list_commit(uid, book_key, status, existing) ==
    IF existing
    THEN /\ resp' = Response("add_to_reading_list", uid, book_key, 0, status,
                             HTTP_400_BAD_REQUEST, <<>>)
         /\ UNCHANGED user_books
    ELSE LET user_book == NewUserBook(uid, book_key, status) IN
         /\ user_books' = user_books \cup {user_book}
         /\ resp' = Response("add_to_reading_list", uid, book_key, user_book.id, status,
                             HTTP_201_CREATED, <<user_book>>)

add_to_reading_list(cu, book_key, status) ==
    LET existing == UserBookQuery(cu.id, book_key) # {} IN
    /\ reading_list_commit(cu.id, book_key, status, existing)
    /\ after_remove' = /\ ~existing
                       /\ resp.op = "remove_from_reading_list"
                       /\ resp.code = HTTP_204_NO_CONTENT
                       /\ resp.user = cu.id
                       /\ resp.key = book_key
    /\ UNCHANGED <<issued_to, settings, tokens, users, favorites, comments, now, pend, deleted>>

get_reading_list(cu, status) ==
    LET query == {b \in user_books : b.user_id = cu.id /\ (status # "" => b.status = status)} IN
    /\ \E rows \in OrderedDesc(query, "updated_at") :
          resp' = Response("get_reading_list", cu.id, "", 0, status, HTTP_200_OK, rows)
    /\ after_remove' = FALSE
    /\ UNCHANGED <<issued_to, settings, tokens, users, user_books, favorites, comments, now, pend, deleted>>

\* user_book.status = ...; db.commit(): the UPDATE, and with it onupdate of
\* updated_at, is issued only when the attribute's value changes.
SetStatus(user_book, status) ==
    IF user_book.status = status
    THEN user_book
    ELSE [user_book EXCEPT !.status = status, !.updated_at = now]

update_reading_status(cu, book_key, status) ==
    LET matching == UserBookQuery(cu.id, book_key) IN
    /\ IF matching = {}
       THEN /\ resp' = Response("update_reading_status", cu.id, book_key, 0, status,
                                HTTP_404_NOT_FOUND, <<>>)
            /\ UNCHANGED user_books
       ELSE \E user_book \in matching :
            LET updated == SetStatus(user_book, status) IN
            /\ user_books' = (user_books \ {user_book}) \cup {updated}
            /\ resp' = Response("update_reading_status", cu.id, book_key, updated.id, status,
                                HTTP_200_OK, <<updated>>)
    /\ after_remove' = FALSE
    /\ UNCHANGED <<issued_to, settings, tokens, users, favorites, comments, now, pend, deleted>>

\* Mutant: the filter on the book key is missing from the delete, which
\* removes every entry of the user.
remove_from_reading_list_all(cu, book_key) ==
    LET matching == UserBookQuery(cu.id, book_key) IN
    /\ IF matching = {}
       THEN /\ resp' = Response("remove_from_reading_list", cu.id, book_key, 0, "",
                                HTTP_404_NOT_FOUND, <<>>)
            /\ UNCHANGED user_books
       ELSE \E user_book \in matching :
            /\ user_books' = {b \in user_books : b.user_id # cu.id}
            /\ resp' = Response("remove_from_reading_list", cu.id, book_key, user_book.id, "",
                                HTTP_204_NO_CONTENT, <<>>)
    /\ after_remove' = FALSE
    /\ UNCHANGED <<issued_to, settings, tokens, users, favorites, comments, now, pend, deleted>>

\* Mutant: the delete is answered 204 but never committed.
remove_from_reading_list_uncommitted(cu, book_key) ==
    LET matching == UserBookQuery(cu.id, book_key) IN
    /\ IF matching = {}
       THEN resp' = Response("remove_from_reading_list", cu.id, book_key, 0, "",
                             HTTP_404_NOT_FOUND, <<>>)
       ELSE \E user_book \in matching :
            resp' = Response("remove_from_reading_list", cu.id, book_key, user_book.id, "",
                             HTTP_204_NO_CONTENT, <<>>)
    /\ after_remove' = FALSE
    /\ UNCHANGED <<issued_to, settings, tokens, users, user_books, favorites, comments, now, pend, deleted>>

remove_from_reading_list(cu, book_key) ==
    LET matching == UserBookQuery(cu.id, book_key) IN
    /\ IF matching = {}
       THEN /\ resp' = Response("remove_from_reading_list", cu.id, book_key, 0, "",
                                HTTP_404_NOT_FOUND, <<>>)
            /\ UNCHANGED user_books
       ELSE \E user_book \in matching :
            /\ user_books' = user_books \ {user_book}
            /\ resp' = Response("remove_from_reading_list", cu.id, book_key, user_book.id, "",
                                HTTP_204_NO_CONTENT, <<>>)
    /\ after_remove' = FALSE
    /\ UNCHANGED <<issued_to, settings, tokens, users, favorites, comments, now, pend, deleted>>

----------------------------------------------------------------------------
(* Favorites: interface/api/routes/user_books.py *)

\* add_to_favorites from "if existing:" on; favorites declares no constraint
\* on (user_id, book_key) either.
\* Mutant: the existence check is ignored, the favorite is always inserted.
favorites_commit_unchecked(uid, book_key, existing) ==
    LET favorite == NewFavorite(uid, book_key) IN
    /\ favorites' = favorites \cup {favorite}
    /\ resp' = Response("add_to_favorites", uid, book_key, favorite.id, "",
                        HTTP_201_CREATED, <<favorite>>)

favorites_commit(uid, book_key, existing) ==
    IF existing
    THEN /\ resp' = Response("add_to_favorites", uid, book_key, 0, "",
                             HTTP_400_BAD_REQUEST, <<>>)
         /\ UNCHANGED favorites
    ELSE LET favorite == NewFavorite(uid, book_key) IN
         /\ favorites' = favorites \cup {favorite}
         /\ resp' = Response("add_to_favorites", uid, book_key, favorite.id, "",
                             HTTP_201_CREATED, <<favorite>>)

add_to_favorites(cu, book_key) ==
    /\ favorites_commit(cu.id, book_key, FavoriteQuery(cu.id, book_key) # {})
    /\ after_remove' = FALSE
    /\ UNCHANGED <<issued_to, settings, tokens, users, user_books, comments, now, pend, deleted>>

get_favorites(cu) ==
    /\ \E rows \in OrderedDesc({f \in favorites : f.user_id = cu.id}, "added_at") :
          resp' = Response("get_favorites", cu.id, "", 0, "", HTTP_200_OK, rows)
    /\ after_remove' = FALSE
    /\ UNCHANGED <<issued_to, settings, tokens, users, user_books, favorites, comments, now, pend, deleted>>

remove_from_favorites(cu, book_key) ==
    LET matching == FavoriteQuery(cu.id, book_key) IN
    /\ IF matching = {}
       THEN /\ resp' = Response("remove_from_favorites", cu.id, book_key, 0, "",
                                HTTP_404_NOT_FOUND, <<>>)
            /\ UNCHANGED favorites
       ELSE \E favorite \in matching :
            /\ favorites' = favorites \ {favorite}
            /\ resp' = Response("remove_from_favorites", cu.id, book_key, favorite.id, "",
                                HTTP_204_NO_CONTENT, <<>>)
    /\ after_remove' = FALSE
    /\ UNCHANGED <<issued_to, settings, tokens, users, user_books, comments, now, pend, deleted>>

----------------------------------------------------------------------------
(* Comments: interface/api/routes/comments.py *)

create_comment(cu, book_key, content) ==
    LET comment == NewComment(cu.id, book_key, content) IN
    /\ comments' = comments \cup {comment}
    /\ resp' = Response("create_comment", cu.id, book_key, comment.id, content,
                        HTTP_201_CREATED, <<[comment |-> comment, username |-> cu.username]>>)
    /\ after_remove' = FALSE
    /\ UNCHANGED <<issued_to, settings, tokens, users, user_books, favorites, now, pend, deleted>>

\* Mutant: the update stamps created_at as well.
SetContentAndCreated(comment, content) ==
    [comment EXCEPT !.content = content, !.created_at = now, !.updated_at = now]

\* comment.content = ...; db.commit(): as for SetStatus, updated_at moves
\* only when the content changes.
SetContent(comment, content) ==
    IF comment.content = content
    THEN comment
    ELSE [comment EXCEPT !.content = content, !.updated_at = now]

\* Mutant: the ownership check is missing.
update_comment_any_user(cu, comment_id, content) ==
    LET matching == CommentQuery(comment_id) IN
    /\ IF matching = {}
       THEN /\ resp' = Response("update_comment", cu.id, "", comment_id, content,
                                HTTP_404_NOT_FOUND, <<>>)
            /\ UNCHANGED comments
       ELSE \E comment \in matching :
            LET updated == SetContent(comment, content) IN
            /\ comments' = (comments \ {comment}) \cup {updated}
            /\ resp' = Response("update_comment", cu.id, "", comment_id, content,
                                HTTP_200_OK,
                                <<[comment |-> updated, username |-> cu.username]>>)
    /\ after_remove' = FALSE
    /\ UNCHANGED <<issued_to, settings, tokens, users, user_books, favorites, now, pend, deleted>>

update_comment(cu, comment_id, content) ==
    LET matching == CommentQuery(comment_id) IN
    /\ IF matching = {}
       THEN /\ resp' = Response("update_comment", cu.id, "", comment_id, content,
                                HTTP_404_NOT_FOUND, <<>>)
            /\ UNCHANGED comments
       ELSE \E comment \in matching :
            IF comment.user_id # cu.id
            THEN /\ resp' = Response("update_comment", cu.id, "", comment_id, content,
                                     HTTP_403_FORBIDDEN, <<>>)
                 /\ UNCHANGED comments
            ELSE LET updated == SetContent(comment, content) IN
                 /\ comments' = (comments \ {comment}) \cup {updated}
                 /\ resp' = Response("update_comment", cu.id, "", comment_id, content,
                                     HTTP_200_OK,
                                     <<[comment |-> updated, username |-> cu.username]>>)
    /\ after_remove' = FALSE
    /\ UNCHANGED <<issued_to, settings, tokens, users, user_books, favorites, now, pend, deleted>>

delete_comment(cu, comment_id) ==
    LET matching == CommentQuery(comment_id) IN
    /\ IF matching = {}
       THEN /\ resp' = Response("delete_comment", cu.id, "", comment_id, "",
                                HTTP_404_NOT_FOUND, <<>>)
            /\ UNCHANGED <<comments, deleted>>
       ELSE \E comment \in matching :
            IF comment.user_id # cu.id
            THEN /\ resp' = Response("delete_comment", cu.id, "", comment_id, "",
                                     HTTP_403_FORBIDDEN, <<>>)
                 /\ UNCHANGED <<comments, deleted>>
            ELSE /\ comments' = comments \ {comment}
                 /\ deleted' = deleted \cup {comment_id}
                 /\ resp' = Response("delete_comment", cu.id, "", comment_id, "",
                                     HTTP_204_NO_CONTENT, <<>>)
    /\ after_remove' = FALSE
    /\ UNCHANGED <<issued_to, settings, tokens, users, user_books, favorites, now, pend>>

\* limit: int = Query(10, ge=1, le=50); offset: int = Query(0, ge=0)
limit_ge == 1
limit_le == 50
offset_ge == 0

\* the limits and offsets requested: around the bounds of both
Limits == {0, 1, 2, limit_le, limit_le + 1}
Offsets == {-1, 0, 1, 2}

Min(a, b) == IF a < b THEN a ELSE b

\* .offset(offset).limit(limit) of an ordered result
Page(rows, limit, offset) == SubSeq(rows, offset + 1, Min(offset + limit, Len(rows)))

\* CommentResponse(..., username=comment.user.username)
CommentResponse(comment) ==
    [comment |-> comment,
     username |-> (CHOOSE u \in users : u.id = comment.user_id).username]

\* Mutant: the offset is not applied.
get_book_comments_no_offset(book_key, limit, offset) ==
    /\ IF limit < limit_ge \/ limit > limit_le \/ offset < offset_ge
       THEN resp' = Response("get_book_comments", 0, book_key, 0, <<limit, offset>>,
                             HTTP_422_UNPROCESSABLE, <<>>)
       ELSE LET query == {c \in comments : c.book_key = book_key} IN
            \E rows \in OrderedDesc(query, "created_at") :
               resp' = Response("get_book_comments", 0, book_key, 0, <<limit, offset>>,
                                HTTP_200_OK,
                                [i \in 1..Len(Page(rows, limit, 0)) |->
                                    CommentResponse(Page(rows, limit, 0)[i])])
    /\ after_remove' = FALSE
    /\ UNCHANGED <<issued_to, settings, tokens, users, user_books, favorites, comments, now, pend, deleted>>

\* GET /comments/book/{book_key}: no dependency on get_current_user; the
\* query parameters are validated before the handler runs.
get_book_comments(book_key, limit, offset) ==
    /\ IF limit < limit_ge \/ limit > limit_le \/ offset < offset_ge
       THEN resp' = Response("get_book_comments", 0, book_key, 0, <<limit, offset>>,
                             HTTP_422_UNPROCESSABLE, <<>>)
       ELSE LET query == {c \in comments : c.book_key = book_key} IN
            \E rows \in OrderedDesc(query, "created_at") :
               resp' = Response("get_book_comments", 0, book_key, 0, <<limit, offset>>,
                                HTTP_200_OK,
                                [i \in 1..Len(Page(rows, limit, offset)) |->
                                    CommentResponse(Page(rows, limit, offset)[i])])
    /\ after_remove' = FALSE
    /\ UNCHANGED <<issued_to, settings, tokens, users, user_books, favorites, comments, now, pend, deleted>>

----------------------------------------------------------------------------
(* The catalog routes: book details fetched from OpenLibrary.               *)

\* what a request to OpenLibrary ends in: the document, a 404 or a 5xx
\* status (raise_for_status), a timeout, a connection error
FetchOutcomes == {"ok", "missing", "status_5xx", "timeout", "network"}

\* the book keys a detail request may carry, with and without leading slash
RequestedBookKeys == BookKeys \cup {"OL1W"}

\* if not book_key.startswith("/"): book_key = f"/works/{book_key}"
WorkKey(book_key) == IF book_key \in BookKeys THEN book_key ELSE "/works/OL1W"

\* the documents of the catalog: every work names two authors
AuthorKeys == <<"/authors/OL1A", "/authors/OL2A">>
AuthorName(author_key) == IF author_key = "/authors/OL1A" THEN "Ann" ELSE "Ben"
BookDocument(book_key) == [key |-> book_key, title |-> "T", authors |-> AuthorKeys]

\* the loop over book_data["authors"]: a lookup that raises is passed over
RECURSIVE author_names(_, _, _)
author_names(authors, outcomes, i) ==
    IF i > Len(authors) THEN <<>>
    ELSE (IF outcomes[i] = "ok" THEN <<AuthorName(authors[i])>> ELSE <<>>)
            \o author_names(authors, outcomes, i + 1)

\* transform_book_for_frontend: the first author, or "Unknown Author"
transform_book_for_frontend(book_data) ==
    [id |-> book_data.key, key |-> book_data.key, title |-> book_data.title,
     author |-> IF book_data.author_name = <<>> THEN "Unknown Author"
                ELSE book_data.author_name[1],
     author_name |-> book_data.author_name]

\* the body of both routes' try block: it raises, or returns the answer
book_details(book_key, outcome, outcomes) ==
    IF outcome # "ok" THEN [raised |-> TRUE]
    ELSE LET book_data == BookDocument(book_key) IN
         [raised |-> FALSE,
          value |-> transform_book_for_frontend(
                        [key |-> book_data.key, title |-> book_data.title,
                         author_name |-> author_names(book_data.authors, outcomes, 1)])]

\* GET /books/{book_key}: every exception is answered 404
get_book_details(book_key, outcome, outcomes) ==
    LET result == book_details(WorkKey(book_key), outcome, outcomes) IN
    /\ resp' = IF result.raised
               THEN Response("get_book_details", 0, book_key, 0, <<outcome, outcomes>>,
                             HTTP_404_NOT_FOUND, <<"Book not found">>)
               ELSE Response("get_book_details", 0, book_key, 0, <<outcome, outcomes>>,
                             HTTP_200_OK, <<result.value>>)
    /\ after_remove' = FALSE
    /\ UNCHANGED <<issued_to, settings, tokens, users, user_books, favorites, comments, now,
                   pend, deleted>>

\* GET /books/featured: every exception is answered 500
get_featured_book(outcome, outcomes) ==
    LET book_key == "/works/OL27448W"
        result == book_details(book_key, outcome, outcomes) IN
    /\ resp' = IF result.raised
               THEN Response("get_featured_book", 0, book_key, 0, <<outcome, outcomes>>,
                             HTTP_500_INTERNAL_SERVER_ERROR, <<"Failed to fetch featured book">>)
               ELSE Response("get_featured_book", 0, book_key, 0, <<outcome, outcomes>>,
                             HTTP_200_OK, <<result.value>>)
    /\ after_remove' = FALSE
    /\ UNCHANGED <<issued_to, settings, tokens, users, user_books, favorites, comments, now,
                   pend, deleted>>

----------------------------------------------------------------------------
(* Request bodies of the comment routes.                                    *)

\* Field(..., min_length=1, max_length=2000)
min_length == 1
max_length == 2000

\* the contents a request may carry: the empty one, a short one, and two
\* long ones named by their construction, "a" * 2000 and "a" * 2001
RequestContents == {"", "x", "a*2000", "a*2001"}

\* len(content)
len(content) ==
    CASE content = "" -> 0
      [] content = "x" -> 1
      [] content = "nice book" -> 9
      [] content = "a*2000" -> 2000
      [] content = "a*2001" -> 2001

\* Mutant: the field has no upper bound.
content_Field_no_max(content) == len(content) >= min_length

\* the constraint on content of CommentCreate and CommentUpdate
content_Field(content) == len(content) >= min_length /\ len(content) <= max_length

\* the request is answered by the framework: the handler does not run
RequestValidationError(op, uid, key, id, arg) ==
    /\ resp' = Response(op, uid, key, id, arg, HTTP_422_UNPROCESSABLE, <<>>)
    /\ after_remove' = FALSE
    /\ UNCHANGED <<issued_to, settings, tokens, users, user_books, favorites, comments, now, pend, deleted>>

\* POST /comments: the body is parsed as CommentCreate, then the handler runs
post_comment(cu, book_key, content) ==
    IF content_Field(content)
    THEN create_comment(cu, book_key, content)
    ELSE RequestValidationError("create_comment", cu.id, book_key, 0, content)

\* PUT /comments/{comment_id}: the body is parsed as CommentUpdate, then the
\* handler runs
put_comment(cu, comment_id, content) ==
    IF content_Field(content)
    THEN update_comment(cu, comment_id, content)
    ELSE RequestValidationError("update_comment", cu.id, "", comment_id, content)

----------------------------------------------------------------------------
(* Two add requests served by different worker processes: each handler's    *)
(* existence query and its commit are separate steps on the shared store.   *)

Workers == 1..MaxPending

Busy(w) == \E p \in pend : p.worker = w

add_to_reading_list_query(w, cu, book_key, status) ==
    /\ ~Busy(w)
    /\ pend' = pend \cup {[worker |-> w, op |-> "add_to_reading_list", user |-> cu.id,
                           key |-> book_key, arg |-> status,
                           existing |-> UserBookQuery(cu.id, book_key) # {}]}
    /\ UNCHANGED <<issued_to, settings, tokens, users, user_books, favorites, comments, now, resp, after_remove, deleted>>

add_to_reading_list_commit(p) ==
    /\ p.op = "add_to_reading_list"
    /\ reading_list_commit(p.user, p.key, p.arg, p.existing)
    /\ pend' = pend \ {p}
    /\ UNCHANGED <<issued_to, settings, tokens, users, favorites, comments, now, after_remove, deleted>>

add_to_favorites_query(w, cu, book_key) ==
    /\ ~Busy(w)
    /\ pend' = pend \cup {[worker |-> w, op |-> "add_to_favorites", user |-> cu.id,
                           key |-> book_key, arg |-> "",
                           existing |-> FavoriteQuery(cu.id, book_key) # {}]}
    /\ UNCHANGED <<issued_to, settings, tokens, users, user_books, favorites, comments, now, resp, after_remove, deleted>>

add_to_favorites_commit(p) ==
    /\ p.op = "add_to_favorites"
    /\ favorites_commit(p.user, p.key, p.existing)
    /\ pend' = pend \ {p}
    /\ UNCHANGED <<issued_to, settings, tokens, users, user_books, comments, now, after_remove, deleted>>

----------------------------------------------------------------------------
(* Credentials and tokens: application/uses_cases/auth/auth_service.py *)

\* the clock's bound and the tokens clients may hold
MaxTime == 2
MaxTokens == 1

Emails == {"a@x.com", "b@x.com"}
Usernames == {"alice", "bob"}
Passwords == {"pw1", "pw2"}

\* timedelta(minutes=15), the fallback of create_access_token
fallback_expire_minutes == 15

\* pwd_context.hash: the plaintext is kept only inside the bcrypt digest
get_password_hash(password) == <<"bcrypt", password>>

\* Mutant: the stored digest is compared with the plaintext itself.
verify_password_plain(plain_password, hashed_password) ==
    hashed_password = plain_password

\* pwd_context.verify
verify_password(plain_password, hashed_password) ==
    hashed_password = get_password_hash(plain_password)

\* jwt.encode(to_encode, key): the claims, signed with key.  expires_delta
\* is <<>> for None and <<minutes>> otherwise.
create_access_token(data, expires_delta) ==
    LET minutes == IF expires_delta = <<>> \/ expires_delta[1] = 0
                   THEN fallback_expire_minutes
                   ELSE expires_delta[1]
        expire == now + minutes
    IN  [claims |-> [c \in DOMAIN data \cup {"exp"} |-> IF c = "exp" THEN expire ELSE data[c]],
         key |-> settings.secret_key,
         wellformed |-> TRUE]

\* jwt.decode raises JWTError on a token that is not a JWT, on a signature
\* made with another key, and on an exp claim that lies in the past.
JWTError(token) ==
    \/ ~token.wellformed
    \/ token.key # settings.secret_key
    \/ "exp" \in DOMAIN token.claims /\ token.claims["exp"] < now

Unauthorized(detail) == [ok |-> FALSE, code |-> HTTP_401_UNAUTHORIZED, detail |-> detail]

\* Mutant: the expiry is not verified.
get_current_user_email_no_expiry(token) ==
    IF ~token.wellformed \/ token.key # settings.secret_key
    THEN Unauthorized("Invalid authentication credentials")
    ELSE IF "sub" \notin DOMAIN token.claims
         THEN Unauthorized("Invalid authentication credentials")
         ELSE [ok |-> TRUE, email |-> token.claims["sub"]]

get_current_user_email(token) ==
    IF JWTError(token)
    THEN Unauthorized("Invalid authentication credentials")
    ELSE IF "sub" \notin DOMAIN token.claims
         THEN Unauthorized("Invalid authentication credentials")
         ELSE [ok |-> TRUE, email |-> token.claims["sub"]]

\* db.commit() of a new User: the users table declares email and username
\* unique, so the store refuses a row that repeats either (IntegrityError,
\* which no handler catches: the request ends as a server error).
\* Mutant: the table has no unique columns.
users_commit_unconstrained(email, username, password) ==
    LET db_user == [id |-> NextId(users), email |-> email, username |-> username,
                    hashed_password |-> get_password_hash(password)] IN
    /\ users' = users \cup {db_user}
    /\ resp' = Response("register", 0, email, db_user.id, <<username, password>>, HTTP_201_CREATED, <<db_user>>)

users_commit(email, username, password) ==
    IF \E u \in users : u.email = email \/ u.username = username
    THEN /\ resp' = Response("register", 0, email, 0, <<username, password>>,
                             HTTP_500_INTERNAL_SERVER_ERROR, <<"Internal Server Error">>)
         /\ UNCHANGED users
    ELSE LET db_user == [id |-> NextId(users), email |-> email, username |-> username,
                         hashed_password |-> get_password_hash(password)] IN
         /\ users' = users \cup {db_user}
         /\ resp' = Response("register", 0, email, db_user.id, <<username, password>>,
                             HTTP_201_CREATED, <<db_user>>)

\* the two existence checks of create_user, in their order
create_user_check(email, username) ==
    IF \E u \in users : u.email = email THEN "Email already registered"
    ELSE IF \E u \in users : u.username = username THEN "Username already taken"
    ELSE ""

\* Mutant: the username is checked before the email.
create_user_username_first(email, username, password, checked) ==
    IF \E u \in users : u.username = username
    THEN /\ resp' = Response("register", 0, email, 0, <<username, password>>,
                             HTTP_400_BAD_REQUEST, <<"Username already taken">>)
         /\ UNCHANGED users
    ELSE IF \E u \in users : u.email = email
    THEN /\ resp' = Response("register", 0, email, 0, <<username, password>>,
                             HTTP_400_BAD_REQUEST, <<"Email already registered">>)
         /\ UNCHANGED users
    ELSE users_commit(email, username, password)

\* create_user once its checks have answered `checked`
create_user(email, username, password, checked) ==
    IF checked # ""
    THEN /\ resp' = Response("register", 0, email, 0, <<username, password>>,
                             HTTP_400_BAD_REQUEST, <<checked>>)
         /\ UNCHANGED users
    ELSE users_commit(email, username, password)

\* POST /register
register(email, username, password) ==
    /\ create_user(email, username, password, create_user_check(email, username))
    /\ after_remove' = FALSE
    /\ UNCHANGED <<issued_to, settings, tokens, user_books, favorites, comments, now, pend, deleted>>

\* create_access_token called on its own, with or without expires_delta
issue_token(email, expires_delta) ==
    LET token == create_access_token([sub |-> email], expires_delta) IN
    /\ tokens' = tokens \cup {token}
    /\ resp' = Response("create_access_token", 0, email, 0, expires_delta, HTTP_200_OK, <<token>>)
    /\ after_remove' = FALSE
    /\ UNCHANGED <<issued_to, settings, users, user_books, favorites, comments, now, pend,
                   deleted>>

\* Two register requests served by different workers: the checks of
\* create_user and its commit are separate steps on the shared store.
register_query(w, email, username, password) ==
    /\ ~Busy(w)
    /\ pend' = pend \cup {[worker |-> w, op |-> "register", email |-> email,
                           username |-> username, password |-> password,
                           checked |-> create_user_check(email, username)]}
    /\ UNCHANGED <<issued_to, settings, tokens, users, user_books, favorites, comments, now, resp,
                   after_remove, deleted>>

register_commit(p) ==
    /\ p.op = "register"
    /\ create_user(p.email, p.username, p.password, p.checked)
    /\ pend' = pend \ {p}
    /\ UNCHANGED <<issued_to, settings, tokens, user_books, favorites, comments, now, after_remove, deleted>>

authenticate_user(email, password) ==
    {u \in users : u.email = email /\ verify_password(password, u.hashed_password)}

\* Mutant: an unknown email is told apart from a wrong password.
login_telling(email, password) ==
    /\ IF authenticate_user(email, password) = {}
       THEN /\ resp' = Response("login", 0, email, 0, password, HTTP_401_UNAUTHORIZED,
                                IF \E u \in users : u.email = email
                                THEN <<"Incorrect password">> ELSE <<"Unknown email">>)
            /\ UNCHANGED <<tokens, issued_to>>
       ELSE \E user \in authenticate_user(email, password) :
            LET access_token == create_access_token([sub |-> user.email],
                                                    <<settings.access_token_expire_minutes>>) IN
            /\ tokens' = tokens \cup {access_token}
            /\ issued_to' = issued_to \cup {[token |-> access_token, user |-> user]}
            /\ resp' = Response("login", user.id, email, 0, password, HTTP_200_OK,
                                <<access_token>>)
    /\ after_remove' = FALSE
    /\ UNCHANGED <<settings, users, user_books, favorites, comments, now, pend, deleted>>

\* POST /login
login(email, password) ==
    /\ IF authenticate_user(email, password) = {}
       THEN /\ resp' = Response("login", 0, email, 0, password, HTTP_401_UNAUTHORIZED,
                                <<"Incorrect email or password">>)
            /\ UNCHANGED <<tokens, issued_to>>
       ELSE \E user \in authenticate_user(email, password) :
            LET access_token == create_access_token([sub |-> user.email],
                                                    <<settings.access_token_expire_minutes>>) IN
            /\ tokens' = tokens \cup {access_token}
            /\ issued_to' = issued_to \cup {[token |-> access_token, user |-> user]}
            /\ resp' = Response("login", user.id, email, 0, password, HTTP_200_OK,
                                <<access_token>>)
    /\ after_remove' = FALSE
    /\ UNCHANGED <<settings, users, user_books, favorites, comments, now, pend, deleted>>

\* datetime.utcnow() moves on
Tick ==
    /\ now < MaxTime
    /\ now' = now + 1
    /\ UNCHANGED <<issued_to, settings, tokens, users, user_books, favorites, comments, resp, pend,
                   after_remove, deleted>>

----------------------------------------------------------------------------
(* Access gate: interface/api/dependencies.py *)

\* What a client may send as a bearer credential: a token it was given, that
\* token with its signature replaced, a string that is no JWT, and a token
\* signed with the server's key that carries no sub claim.
Tampered(token) == [token EXCEPT !.key = "another-key"]
Malformed == [claims |-> [exp |-> 0], key |-> "", wellformed |-> FALSE]
WithoutSub == [claims |-> [exp |-> MaxTime + 1], key |-> secret_key, wellformed |-> TRUE]

\* <<>> is a request with no Authorization header, <<t>> one with "Bearer t"
Credentials ==
    {<<>>} \cup {<<t>> : t \in tokens \cup {Tampered(t) : t \in tokens} \cup {Malformed, WithoutSub}}

\* security = HTTPBearer(): a request without bearer credentials is answered
\* by the framework before get_current_user runs, with 403 or with 401
\* depending on the FastAPI release installed.
HTTPBearer(credentials) ==
    IF credentials = <<>>
    THEN {[ok |-> FALSE, code |-> HTTP_403_FORBIDDEN, detail |-> "Not authenticated"],
          [ok |-> FALSE, code |-> HTTP_401_UNAUTHORIZED, detail |-> "Not authenticated"]}
    ELSE {[ok |-> TRUE, token |-> credentials[1]]}

\* Mutant: the user is not looked up again, the token's subject is trusted.
get_current_user_trusting(credentials) ==
    { IF ~b.ok THEN b
      ELSE LET e == get_current_user_email(b.token) IN
           IF ~e.ok THEN e
           ELSE [ok |-> TRUE, user |-> [id |-> 0, email |-> e.email, username |-> "",
                                        hashed_password |-> <<>>]]
      : b \in HTTPBearer(credentials) }

\* The outcomes of get_current_user: the user, or the error answered.
get_current_user(credentials) ==
    UNION { IF ~b.ok THEN {b}
            ELSE LET e == get_current_user_email(b.token) IN
                 IF ~e.ok THEN {e}
                 ELSE LET found == {u \in users : u.email = e.email} IN
                      IF found = {} THEN {Unauthorized("User not found")}
                      ELSE {[ok |-> TRUE, user |-> u] : u \in found}
            : b \in HTTPBearer(credentials) }

\* a request to operation op stopped at the gate
denied(op, credentials) ==
    /\ \E g \in get_current_user(credentials) :
          /\ ~g.ok
          /\ resp' = Response(op, 0, "", 0, credentials, g.code, <<g.detail>>)
    /\ after_remove' = FALSE
    /\ UNCHANGED <<issued_to, settings, tokens, users, user_books, favorites, comments, now, pend, deleted>>

\* the operations that depend on get_current_user
ScopedOps ==
    {"get_me", "add_to_reading_list", "get_reading_list", "update_reading_status",
     "remove_from_reading_list", "add_to_favorites", "get_favorites",
     "remove_from_favorites", "create_comment", "update_comment", "delete_comment"}

\* Mutant: the relationships carry no cascade.
delete_user_no_cascade(user) ==
    /\ users' = users \ {user}
    /\ resp' = Response("delete_user", user.id, "", 0, "", 0, <<>>)
    /\ after_remove' = FALSE
    /\ UNCHANGED <<issued_to, settings, tokens, user_books, favorites, comments, now, pend, deleted>>

\* db.delete(user); db.commit(): the ORM cascades to the user's rows
delete_user(user) ==
    /\ users' = users \ {user}
    /\ user_books' = {r \in user_books : r.user_id # user.id}
    /\ favorites' = {r \in favorites : r.user_id # user.id}
    /\ comments' = {r \in comments : r.user_id # user.id}
    /\ resp' = Response("delete_user", user.id, "", 0, "", 0, <<>>)
    /\ after_remove' = FALSE
    /\ UNCHANGED <<issued_to, settings, tokens, now, pend, deleted>>

\* GET /me
get_me(credentials) ==
    /\ \E g \in get_current_user(credentials) :
          IF g.ok
          THEN resp' = Response("get_me", g.user.id, g.user.email, 0, credentials,
                                HTTP_200_OK, <<g.user>>)
          ELSE resp' = Response("get_me", 0, "", 0, credentials, g.code, <<g.detail>>)
    /\ after_remove' = FALSE
    /\ UNCHANGED <<issued_to, settings, tokens, users, user_books, favorites, comments, now, pend, deleted>>

----------------------------------------------------------------------------
(* Specifications *)

InitRegistered ==
    /\ users = RegisteredUsers
    /\ user_books = {}
    /\ favorites = {}
    /\ comments = {}
    /\ now = 0
    /\ resp = NoResp
    /\ pend = {}
    /\ after_remove = FALSE
    /\ deleted = {}
    /\ settings = DefaultSettings
    /\ tokens = {}
    /\ issued_to = {}

\* The model's caps: an insert happens only while fewer than cap rows are
\* in use and the next row id is within idcap.
Room(rows, used, cap, idcap) == used < cap /\ NextId(rows) <= idcap

ReadingListNext ==
    \E cu \in users, book_key \in BookKeys :
        \/ \E status \in ReadingStatus :
              /\ UserBookQuery(cu.id, book_key) # {}
                    \/ Room(user_books, Cardinality(user_books), MaxRows, MaxId)
              /\ add_to_reading_list(cu, book_key, status)
        \/ \E status \in ReadingStatus \cup {""} : get_reading_list(cu, status)
        \/ \E status \in ReadingStatus : update_reading_status(cu, book_key, status)
        \/ remove_from_reading_list(cu, book_key)

FavoritesNext ==
    \E cu \in users, book_key \in BookKeys :
        \/ /\ FavoriteQuery(cu.id, book_key) # {}
                 \/ Room(favorites, Cardinality(favorites), MaxRows, MaxId)
           /\ add_to_favorites(cu, book_key)
        \/ get_favorites(cu)
        \/ remove_from_favorites(cu, book_key)

Entries == Cardinality(user_books) + Cardinality(favorites)

LibraryNext ==
    \E cu \in users, book_key \in BookKeys :
        \/ \E status \in ReadingStatus :
              /\ UserBookQuery(cu.id, book_key) # {}
                    \/ Room(user_books, Entries, MaxEntries, MaxEntries)
              /\ add_to_reading_list(cu, book_key, status)
        \/ \E status \in ReadingStatus \cup {""} : get_reading_list(cu, status)
        \/ \E status \in ReadingStatus : update_reading_status(cu, book_key, status)
        \/ remove_from_reading_list(cu, book_key)
        \/ /\ FavoriteQuery(cu.id, book_key) # {}
                 \/ Room(favorites, Entries, MaxEntries, MaxEntries)
           /\ add_to_favorites(cu, book_key)
        \/ get_favorites(cu)
        \/ remove_from_favorites(cu, book_key)

CommentsNext ==
    \E cu \in users :
        \/ \E book_key \in BookKeys, content \in Contents :
              /\ Room(comments, Cardinality(comments), MaxComments, MaxId)
              /\ create_comment(cu, book_key, content)
        \/ \E comment_id \in 1..MaxId, content \in Contents :
              update_comment(cu, comment_id, content)
        \/ \E comment_id \in 1..MaxId : delete_comment(cu, comment_id)

ValidatedCommentsNext ==
    \E cu \in users :
        \/ \E book_key \in BookKeys, content \in RequestContents :
              /\ Room(comments, Cardinality(comments), MaxComments, MaxId)
              /\ post_comment(cu, book_key, content)
        \/ \E comment_id \in 1..MaxId, content \in RequestContents :
              put_comment(cu, comment_id, content)

CommentListNext ==
    \/ \E cu \in {u \in users : u.username = "alice"}, book_key \in BookKeys :
          /\ Room(comments, Cardinality(comments), MaxComments, MaxId)
          /\ create_comment(cu, book_key, "x")
    \/ \E book_key \in BookKeys, limit \in Limits, offset \in Offsets :
          get_book_comments(book_key, limit, offset)
    \/ Tick

ReadingClockNext ==
    \/ \E cu \in users, book_key \in BookKeys :
          \/ \E status \in ReadingStatus :
                /\ UserBookQuery(cu.id, book_key) # {}
                      \/ Room(user_books, Cardinality(user_books), MaxEntries, MaxEntries)
                /\ add_to_reading_list(cu, book_key, status)
          \/ \E status \in ReadingStatus \cup {""} : get_reading_list(cu, status)
          \/ \E status \in ReadingStatus : update_reading_status(cu, book_key, status)
    \/ Tick

Records == Cardinality(user_books) + Cardinality(favorites) + Cardinality(comments)

CascadeNext ==
    \E cu \in users :
        \/ \E book_key \in BookKeys :
              \/ /\ UserBookQuery(cu.id, book_key) # {}
                       \/ Room(user_books, Records, MaxEntries, MaxEntries)
                 /\ add_to_reading_list(cu, book_key, "reading")
              \/ /\ FavoriteQuery(cu.id, book_key) # {}
                       \/ Room(favorites, Records, MaxEntries, MaxEntries)
                 /\ add_to_favorites(cu, book_key)
              \/ /\ Room(comments, Records, MaxEntries, MaxEntries)
                 /\ create_comment(cu, book_key, "x")
        \/ delete_user(cu)

CommentClockNext ==
    \/ \E cu \in users :
          \/ \E book_key \in BookKeys :
                /\ ~\E c \in comments : c.user_id = cu.id
                /\ create_comment(cu, book_key, "x")
          \/ \E comment_id \in 1..MaxComments, content \in Contents :
                update_comment(cu, comment_id, content)
    \/ Tick

CatalogNext ==
    \E outcome \in FetchOutcomes, outcomes \in [1..Len(AuthorKeys) -> FetchOutcomes] :
        \/ \E book_key \in RequestedBookKeys : get_book_details(book_key, outcome, outcomes)
        \/ get_featured_book(outcome, outcomes)

RaceNext ==
    \/ \E w \in Workers, cu \in users, book_key \in BookKeys, status \in ReadingStatus :
          add_to_reading_list_query(w, cu, book_key, status)
    \/ \E w \in Workers, cu \in users, book_key \in BookKeys :
          add_to_favorites_query(w, cu, book_key)
    \/ \E p \in pend :
          /\ p.existing \/ Room(user_books, Entries, MaxEntries, MaxEntries)
          /\ add_to_reading_list_commit(p)
    \/ \E p \in pend :
          /\ p.existing \/ Room(favorites, Entries, MaxEntries, MaxEntries)
          /\ add_to_favorites_commit(p)

\* the configured token lifetimes studied: the default and two short ones
ExpireMinutes == {1, 2, access_token_expire_minutes}

\* the state after start-up: empty tables, settings read from the environment
InitEmpty ==
    /\ users = {}
    /\ user_books = {}
    /\ favorites = {}
    /\ comments = {}
    /\ now = 0
    /\ resp = NoResp
    /\ pend = {}
    /\ after_remove = FALSE
    /\ deleted = {}
    /\ \E m \in ExpireMinutes : settings = [DefaultSettings EXCEPT !.access_token_expire_minutes = m]
    /\ tokens = {}
    /\ issued_to = {}

\* two registered users, settings read from the environment
InitGate ==
    /\ users = RegisteredUsers
    /\ user_books = {}
    /\ favorites = {}
    /\ comments = {}
    /\ now = 0
    /\ resp = NoResp
    /\ pend = {}
    /\ after_remove = FALSE
    /\ deleted = {}
    /\ \E m \in {1, access_token_expire_minutes} :
          settings = [DefaultSettings EXCEPT !.access_token_expire_minutes = m]
    /\ tokens = {}
    /\ issued_to = {}

GateNext ==
    \/ \E email \in Emails, password \in Passwords :
          /\ authenticate_user(email, password) = {} \/ Cardinality(tokens) < MaxTokens
          /\ login(email, password)
    \/ \E op \in ScopedOps, credentials \in Credentials : denied(op, credentials)
    \/ \E credentials \in Credentials : get_me(credentials)
    \/ \E credentials \in Credentials, book_key \in BookKeys :
          \E g \in get_current_user(credentials) :
             /\ g.ok
             /\ \/ /\ UserBookQuery(g.user.id, book_key) # {}
                      \/ Room(user_books, Entries + Cardinality(comments), MaxEntries, MaxEntries)
                   /\ add_to_reading_list(g.user, book_key, "reading")
                \/ /\ Room(comments, Entries + Cardinality(comments), MaxEntries, MaxEntries)
                   /\ create_comment(g.user, book_key, "x")
    \/ \E user \in users : delete_user(user)
    \/ Tick

IssueTokenNext ==
    \/ \E email \in Emails, expires_delta \in {<<>>} \cup {<<m>> : m \in ExpireMinutes \cup {0}} :
          /\ Cardinality(tokens) < MaxTokens
          /\ issue_token(email, expires_delta)
    \/ \E credentials \in Credentials : get_me(credentials)
    \/ Tick

ReRegisterNext ==
    \/ \E email \in Emails, password \in Passwords :
          /\ authenticate_user(email, password) = {} \/ Cardinality(tokens) < MaxTokens
          /\ login(email, password)
    \/ \E email \in Emails, username \in Usernames :
          /\ NextId(users) <= MaxId
          /\ register(email, username, "pw2")
    \/ \E user \in users : delete_user(user)
    \/ \E token \in tokens : get_me(<<token>>)
    \/ Tick

AuthNext ==
    \/ \E email \in Emails, username \in Usernames, password \in Passwords :
          register(email, username, password)
    \/ \E email \in Emails, password \in Passwords :
          /\ authenticate_user(email, password) = {} \/ Cardinality(tokens) < MaxTokens
          /\ login(email, password)
    \/ \E credentials \in Credentials : get_me(credentials)
    \/ Tick

RegisterRaceNext ==
    \/ \E w \in Workers, email \in Emails, username \in Usernames :
          register_query(w, email, username, "pw1")
    \/ \E p \in pend : register_commit(p)

\* register requests of several workers interleaving
SpecRegisterRace == InitEmpty /\ [][RegisterRaceNext]_vars

\* the comment requests with their bodies validated
SpecValidatedComments == InitRegistered /\ [][ValidatedCommentsNext]_vars

\* the comments of a book listed while comments are written and time passes
SpecCommentList == InitRegistered /\ [][CommentListNext]_vars

\* the reading list written and listed while time passes
SpecReadingClock == InitRegistered /\ [][ReadingClockNext]_vars

\* users writing records and being deleted
SpecCascade == InitRegistered /\ [][CascadeNext]_vars

\* tokens issued with and without an explicit lifetime
SpecIssueToken == InitEmpty /\ [][IssueTokenNext]_vars

\* each user writing one comment and editing comments while time passes
SpecCommentClock == InitRegistered /\ [][CommentClockNext]_vars

\* users deleted and registered again while tokens are held
SpecReRegister == InitGate /\ [][ReRegisterNext]_vars

\* the catalog routes, with every outcome of the requests to OpenLibrary
SpecCatalog == InitRegistered /\ [][CatalogNext]_vars

\* the gate in front of the ownership-scoped operations
SpecGate == InitGate /\ [][GateNext]_vars

\* registration, login and the gate, one request at a time
SpecAuth == InitEmpty /\ [][AuthNext]_vars

\* the reading list alone, one request at a time
Spec == InitRegistered /\ [][ReadingListNext]_vars

\* the favorites alone, one request at a time
SpecFavorites == InitRegistered /\ [][FavoritesNext]_vars

\* reading list and favorites together, one request at a time
SpecLibrary == InitRegistered /\ [][LibraryNext]_vars

\* the comments, one request at a time
SpecComments == InitRegistered /\ [][CommentsNext]_vars

\* add requests of several workers interleaving
SpecRace == InitRegistered /\ [][RaceNext]_vars

----------------------------------------------------------------------------
(* Properties *)

Stores == <<users, user_books, favorites, comments>>

\* the rows of a table that user uid holds for book key
Held(rows, uid, key) == {r \in rows : r.user_id = uid /\ r.book_key = key}

Unique(rows) ==
    \A r1, r2 \in rows : r1.user_id = r2.user_id /\ r1.book_key = r2.book_key => r1 = r2

\* C1: whatever reading-list requests were served one at a time, the reading
\* list holds at most one entry for each (user_id, book_key) pair.
C1_UniqueReadingListPair == Unique(user_books)

\* A second add of a pair has been refused while another entry is stored too.
C1_Witness ==
    /\ resp.op = "add_to_reading_list"
    /\ resp.code = HTTP_400_BAD_REQUEST
    /\ Held(user_books, resp.user, resp.key) # {}
    /\ Cardinality(user_books) >= 2

\* C2: when add requests for the same pair interleave, the store refuses all
\* but one, so neither table ever holds two entries for a pair.
C2_UniqueUnderInterleaving == Unique(user_books) /\ Unique(favorites)

\* C3: a reading-list add of a pair that has an entry (in particular one that
\* the request before added) is answered 400; an add of a pair that the
\* request before removed is answered 201 and stores the entry.
C3_AddConflictsOnCurrentStateOnly ==
    [][resp'.op = "add_to_reading_list" =>
         /\ Held(user_books, resp'.user, resp'.key) # {} => resp'.code = HTTP_400_BAD_REQUEST
         /\ ( /\ resp.op = "add_to_reading_list"
              /\ resp.code = HTTP_201_CREATED
              /\ resp.user = resp'.user
              /\ resp.key = resp'.key ) => resp'.code = HTTP_400_BAD_REQUEST
         /\ ( /\ resp.op = "remove_from_reading_list"
              /\ resp.code = HTTP_204_NO_CONTENT
              /\ resp.user = resp'.user
              /\ resp.key = resp'.key ) =>
                /\ resp'.code = HTTP_201_CREATED
                /\ \E b \in user_books' :
                      /\ b.user_id = resp'.user
                      /\ b.book_key = resp'.key
                      /\ b.status = resp'.arg
    ]_vars

\* A pair was removed and the next request added it again, with success.
C3_Witness ==
    /\ after_remove
    /\ resp.op = "add_to_reading_list"
    /\ resp.code = HTTP_201_CREATED

\* C4: a reading-list add answered 400 changes no table; an updateStatus of a
\* pair that has an entry is answered 200 and leaves exactly one entry for
\* the pair, with the new status; an unfiltered list returns the user's
\* entries, each once.
C4_ConflictLeavesStoreThenUpdateAndList ==
    [][ /\ ( resp'.op = "add_to_reading_list" /\ resp'.code = HTTP_400_BAD_REQUEST )
              => Stores' = Stores
        /\ ( resp'.op = "update_reading_status" /\ Held(user_books, resp'.user, resp'.key) # {} )
              => /\ resp'.code = HTTP_200_OK
                 /\ \E b \in user_books' :
                       /\ b.status = resp'.arg
                       /\ {x \in user_books' : x.user_id = resp'.user /\ x.book_key = resp'.key} = {b}
        /\ ( resp'.op = "get_reading_list" /\ resp'.arg = "" )
              => /\ {resp'.body[i] : i \in DOMAIN resp'.body}
                       = {b \in user_books : b.user_id = resp'.user}
                 /\ Len(resp'.body) = Cardinality({b \in user_books : b.user_id = resp'.user})
    ]_vars

\* add(A, k, read) has just been refused and the entry still reads "reading".
C4_Witness ==
    /\ resp.op = "add_to_reading_list"
    /\ resp.code = HTTP_400_BAD_REQUEST
    /\ resp.arg = "read"
    /\ \E b \in Held(user_books, resp.user, resp.key) : b.status = "reading"

OthersOf(rows, uid) == {r \in rows : r.user_id # uid}

\* C5: a reading-list or favorites request of user u leaves the entries of
\* every other user as they were, and returns only entries of u.
C5_ScopedToCurrentUser ==
    [][ /\ OthersOf(user_books', resp'.user) = OthersOf(user_books, resp'.user)
        /\ OthersOf(favorites', resp'.user) = OthersOf(favorites, resp'.user)
        /\ \A i \in DOMAIN resp'.body : resp'.body[i].user_id = resp'.user
    ]_vars

\* A user removed a favorite while the other user holds one for the same book.
C5_Witness ==
    /\ resp.op = "remove_from_favorites"
    /\ resp.code = HTTP_204_NO_CONTENT
    /\ \E f \in favorites : f.user_id # resp.user /\ f.book_key = resp.key

\* C6: update and delete of an existing comment by a user who is not its
\* author are answered 403 and leave the comments as they were.
C6_NonAuthorForbidden ==
    [][ ( /\ resp'.op \in {"update_comment", "delete_comment"}
          /\ \E c \in comments : c.id = resp'.id /\ c.user_id # resp'.user )
        => /\ resp'.code = HTTP_403_FORBIDDEN
           /\ comments' = comments
    ]_vars

\* A non-author asked to change an existing comment to another content.
C6_Witness ==
    /\ resp.op = "update_comment"
    /\ resp.code = HTTP_403_FORBIDDEN
    /\ \E c \in comments : c.id = resp.id /\ c.user_id # resp.user /\ c.content # resp.arg

\* C7: update and delete of a comment id that is not stored are answered
\* 404, and so is every update or delete of the id of a comment that its
\* author deleted.
C7_NotFoundAfterDelete ==
    [][ resp'.op \in {"update_comment", "delete_comment"} =>
          /\ {c \in comments : c.id = resp'.id} = {} => resp'.code = HTTP_404_NOT_FOUND
          /\ resp'.id \in deleted => resp'.code = HTTP_404_NOT_FOUND
    ]_vars

\* C8: updateStatus of a pair that has no entry is answered 404 and changes
\* no table.
C8_UpdateMissingNotFound ==
    [][ ( resp'.op = "update_reading_status" /\ Held(user_books, resp'.user, resp'.key) = {} )
        => /\ resp'.code = HTTP_404_NOT_FOUND
           /\ Stores' = Stores
    ]_vars

\* updateStatus was refused while the other user holds the same book and the
\* caller holds another book.
C8_Witness ==
    /\ resp.op = "update_reading_status"
    /\ resp.code = HTTP_404_NOT_FOUND
    /\ \E b \in user_books : b.user_id # resp.user /\ b.book_key = resp.key
    /\ \E b \in user_books : b.user_id = resp.user /\ b.book_key # resp.key

\* C9: a reading-list remove of a pair with no entry is answered 404 and
\* changes no table; of a pair with an entry it is answered 204 and deletes
\* that entry and no other; a remove right after a successful remove of the
\* same pair is answered 404.
C9_RemoveExactlyThatEntry ==
    [][ resp'.op = "remove_from_reading_list" =>
          LET matching == Held(user_books, resp'.user, resp'.key) IN
          /\ matching = {} => resp'.code = HTTP_404_NOT_FOUND /\ Stores' = Stores
          /\ matching # {} =>
                /\ resp'.code = HTTP_204_NO_CONTENT
                /\ Cardinality(matching) = 1
                /\ user_books' = user_books \ matching
                /\ <<users, favorites, comments>>' = <<users, favorites, comments>>
          /\ ( /\ resp.op = "remove_from_reading_list"
               /\ resp.code = HTTP_204_NO_CONTENT
               /\ resp.user = resp'.user
               /\ resp.key = resp'.key ) => resp'.code = HTTP_404_NOT_FOUND
    ]_vars

\* An entry was removed while its owner holds another entry.
C9_Witness ==
    /\ resp.op = "remove_from_reading_list"
    /\ resp.code = HTTP_204_NO_CONTENT
    /\ \E b \in user_books : b.user_id = resp.user

\* C10: the favorites hold at most one entry for each (user_id, book_key)
\* pair; add is answered 400 exactly when the user has the book favorited,
\* remove is answered 404 exactly when the user has not.
C10_FavoritesUniqueAndExact ==
    /\ []Unique(favorites)
    /\ [][ /\ resp'.op = "add_to_favorites" =>
                 ( resp'.code = HTTP_400_BAD_REQUEST <=> Held(favorites, resp'.user, resp'.key) # {} )
           /\ resp'.op = "remove_from_favorites" =>
                 ( resp'.code = HTTP_404_NOT_FOUND <=> Held(favorites, resp'.user, resp'.key) = {} )
       ]_vars

\* A second add of a favorite has been refused while the other user holds
\* the same book.
C10_Witness ==
    /\ resp.op = "add_to_favorites"
    /\ resp.code = HTTP_400_BAD_REQUEST
    /\ \E f \in favorites : f.user_id # resp.user /\ f.book_key = resp.key

\* The step is a request for op being answered: the clock stands still
\* and resp is the answer.
Answered(op) == resp'.op = op /\ now' = now

\* C11: whatever register requests were served, interleaved or not, no two
\* users share an email and no two users share a username.
C11_UniqueEmailAndUsername ==
    \A u1, u2 \in users : (u1.email = u2.email \/ u1.username = u2.username) => u1 = u2

\* The store refused the commit of a request whose checks had passed.
C11_Witness ==
    /\ resp.op = "register"
    /\ resp.code = HTTP_500_INTERNAL_SERVER_ERROR
    /\ \E u \in users : u.email = resp.key

\* C12: register with an email that a user already has is answered 400
\* with the duplicate-email message, whatever the username (also one that
\* another user has), and leaves the users as they were.
C12_DuplicateEmailFirst ==
    [][ ( Answered("register") /\ \E u \in users : u.email = resp'.key )
        => /\ resp'.code = HTTP_400_BAD_REQUEST
           /\ resp'.body = <<"Email already registered">>
           /\ users' = users
    ]_vars

\* A register was refused whose email and whose username both belong to
\* users, two different ones.
C12_Witness ==
    /\ resp.op = "register"
    /\ resp.code = HTTP_400_BAD_REQUEST
    /\ \E u1, u2 \in users :
          /\ u1.email = resp.key
          /\ u2.username = resp.arg[1]
          /\ u1 # u2

\* C13: a login right after a successful register, with the email and the
\* password registered, is answered 200 with a token that resolves to the
\* registered email.
C13_RegisterThenLogin ==
    [][ ( /\ resp.op = "register"
          /\ resp.code = HTTP_201_CREATED
          /\ Answered("login")
          /\ resp'.key = resp.key
          /\ resp'.arg = resp.arg[2] )
        => /\ resp'.code = HTTP_200_OK
           /\ Len(resp'.body) = 1
           /\ resp'.body[1].wellformed
           /\ resp'.body[1].key = settings.secret_key
           /\ resp'.body[1].claims["sub"] = resp.key
           /\ resp'.body[1].claims["exp"] >= now
           /\ get_current_user_email(resp'.body[1]) = [ok |-> TRUE, email |-> resp.key]
    ]_vars

\* A registered user logged in and the token resolves to the email.
C13_Witness ==
    /\ resp.op = "login"
    /\ resp.code = HTTP_200_OK
    /\ \E u \in users : u.email = resp.key
    /\ get_current_user_email(resp.body[1]) = [ok |-> TRUE, email |-> resp.key]

\* C14: a login with an unknown email and a login with a wrong password are
\* both answered 401 with one and the same message, and change nothing.
C14_LoginFailuresAlike ==
    [][ ( /\ Answered("login")
          /\ ~\E u \in users : u.email = resp'.key /\ u.hashed_password = <<"bcrypt", resp'.arg>> )
        => /\ resp'.code = HTTP_401_UNAUTHORIZED
           /\ resp'.body = <<"Incorrect email or password">>
           /\ Stores' = Stores
           /\ tokens' = tokens
    ]_vars

\* A login with a registered email and a wrong password was refused.
C14_Witness ==
    /\ resp.op = "login"
    /\ resp.code = HTTP_401_UNAUTHORIZED
    /\ \E u \in users : u.email = resp.key

\* C17: a comment create or update whose content has length 0 or more than
\* 2000 is answered 422 and leaves every store unchanged, and every stored
\* comment has a content of length 1 to 2000.
C17_ContentLength ==
    /\ [](\A c \in comments : len(c.content) \in 1..2000)
    /\ [][ \A op \in {"create_comment", "update_comment"} :
              ( Answered(op) /\ len(resp'.arg) \notin 1..2000 )
                 => /\ resp'.code = HTTP_422_UNPROCESSABLE
                    /\ Stores' = Stores
          ]_vars

\* The author's update of a stored comment with a content of 2001
\* characters was rejected, and a content of 2000 characters is stored.
C17_Witness ==
    /\ resp.op = "update_comment"
    /\ resp.code = HTTP_422_UNPROCESSABLE
    /\ len(resp.arg) = 2001
    /\ \E c \in comments : c.id = resp.id /\ c.user_id = resp.user
    /\ \E c \in comments : len(c.content) = 2000

\* the comments stored for book key
OfBook(key) == {c \in comments : c.book_key = key}

\* C18 as stated: get_book_comments returns only comments of the book asked
\* for, each created strictly later than the next one.
C18_StrictlyDescending ==
    [][ ( Answered("get_book_comments") /\ resp'.code = HTTP_200_OK )
        => /\ \A i \in 1..Len(resp'.body) : resp'.body[i].comment \in OfBook(resp'.key)
           /\ \A i, j \in 1..Len(resp'.body) :
                 i < j => resp'.body[i].comment.created_at > resp'.body[j].comment.created_at
    ]_vars

\* C18: get_book_comments returns only comments of the book asked for, none
\* created earlier than the next one; comments created at the same instant
\* come in any order.
C18_DescendingWithTies ==
    [][ ( Answered("get_book_comments") /\ resp'.code = HTTP_200_OK )
        => /\ \A i \in 1..Len(resp'.body) : resp'.body[i].comment \in OfBook(resp'.key)
           /\ \A i, j \in 1..Len(resp'.body) :
                 i < j => resp'.body[i].comment.created_at >= resp'.body[j].comment.created_at
    ]_vars

\* Two comments of the book created at the same instant were listed.
C18_Witness ==
    /\ resp.op = "get_book_comments"
    /\ resp.code = HTTP_200_OK
    /\ Len(resp.body) >= 2
    /\ resp.body[1].comment.created_at = resp.body[2].comment.created_at
    /\ resp.body[1].comment # resp.body[2].comment

\* C19: get_book_comments takes no credential; with limit in 1..50 and
\* offset >= 0 it returns the comments at positions offset+1 .. offset+limit
\* of the book's comments ordered by created_at descending; any other limit
\* or offset is answered 422 with the store untouched.
C19_Page ==
    [][ Answered("get_book_comments") =>
          LET limit == resp'.arg[1]
              offset == resp'.arg[2]
              body == resp'.body
              book == OfBook(resp'.key)
              n == Cardinality(book)
              expected == IF n - offset < 0 THEN 0
                          ELSE IF n - offset < limit THEN n - offset ELSE limit
          IN  /\ resp'.user = 0
              /\ Stores' = Stores
              /\ ( limit \notin 1..50 \/ offset < 0 )
                    => resp'.code = HTTP_422_UNPROCESSABLE /\ body = <<>>
              /\ ( limit \in 1..50 /\ offset >= 0 )
                    => /\ resp'.code = HTTP_200_OK
                       /\ Len(body) = expected
                       /\ \A i, j \in 1..Len(body) : i # j => body[i] # body[j]
                       /\ \A i \in 1..Len(body) :
                             LET c == body[i].comment IN
                             /\ c \in book
                             /\ Cardinality({d \in book : d.created_at > c.created_at})
                                   <= offset + i - 1
                             /\ Cardinality({d \in book : d.created_at >= c.created_at})
                                   >= offset + i
    ]_vars

\* The second page of one comment was listed: the older of two comments
\* of the book.
C19_Witness ==
    /\ resp.op = "get_book_comments"
    /\ resp.code = HTTP_200_OK
    /\ resp.arg = <<1, 1>>
    /\ Len(resp.body) = 1
    /\ \E d \in OfBook(resp.key) : d.created_at > resp.body[1].comment.created_at

\* C20: get_reading_list returns exactly the user's entries, those with
\* the status asked for when one is given, each once, none updated earlier
\* than the next one; and a successful update_reading_status made later than
\* every other entry's last update leaves its entry the most recently
\* updated of the user's, hence first in the user's list.
C20_ListMostRecentFirst ==
    [][ /\ Answered("get_reading_list") =>
              LET body == resp'.body
                  mine == {r \in user_books : /\ r.user_id = resp'.user
                                              /\ resp'.arg # "" => r.status = resp'.arg}
              IN  /\ resp'.code = HTTP_200_OK
                  /\ {body[i] : i \in 1..Len(body)} = mine
                  /\ Len(body) = Cardinality(mine)
                  /\ \A i, j \in 1..Len(body) : i < j => body[i].updated_at >= body[j].updated_at
        /\ ( /\ Answered("update_reading_status")
             /\ resp'.code = HTTP_200_OK
             /\ \A r \in user_books : r.id # resp'.id => r.updated_at < now )
              => \A e, r \in user_books' :
                    ( e.id = resp'.id /\ r.user_id = e.user_id /\ r # e )
                       => e.updated_at > r.updated_at
    ]_vars

\* the rows of each of the tables that user uid owns
OwnedBy(tables, uid) == [t \in DOMAIN tables |-> {r \in tables[t] : r.user_id = uid}]

\* C21: every reading-list entry, favorite and comment belongs to a stored
\* user, and the deletion of a user removes that user's records and leaves
\* the records of every other user as they were.
C21_CascadeNoOrphans ==
    /\ [](\A r \in user_books \cup favorites \cup comments :
             \E u \in users : u.id = r.user_id)
    /\ [][ resp'.op = "delete_user" /\ resp' # resp =>
              /\ users' = {u \in users : u.id # resp'.user}
              /\ OwnedBy(<<user_books', favorites', comments'>>, resp'.user) = <<{}, {}, {}>>
              /\ \A uid \in {u.id : u \in users} \ {resp'.user} :
                    OwnedBy(<<user_books', favorites', comments'>>, uid)
                       = OwnedBy(<<user_books, favorites, comments>>, uid)
          ]_vars

\* A user was deleted whose record, the first of its table, is gone, while
\* the later record of the other user is still there.
C21_Witness ==
    /\ resp.op = "delete_user"
    /\ ~\E u \in users : u.id = resp.user
    /\ \E rows \in {user_books, favorites, comments} :
          /\ rows # {}
          /\ \A r \in rows : r.id > 1 /\ r.user_id # resp.user

\* C22: a successful update_reading_status leaves the entry of the user for
\* the book with the status asked for, whichever status it had, and with
\* updated_at at the time of the call, its id, user_id, book_key and
\* added_at being as before.
C22_UpdateSetsStatusAndTime ==
    [][ ( Answered("update_reading_status") /\ resp'.code = HTTP_200_OK )
        => \A old \in Held(user_books, resp'.user, resp'.key) :
              \E new \in user_books' :
                 /\ new.id = old.id
                 /\ new.user_id = old.user_id
                 /\ new.book_key = old.book_key
                 /\ new.added_at = old.added_at
                 /\ new.status = resp'.arg
                 /\ new.updated_at = now
    ]_vars

\* C23: when a register request that passed the existence checks commits
\* after another request took its email, it is answered as a sequential
\* duplicate registration is, 400 with the duplicate-email message, and
\* creates no user; a request whose email is still free creates one user.
C23_RacingRegisterConflict ==
    [][ \A p \in pend :
          ( pend' = pend \ {p} /\ p.checked = "" )
             => IF \E u \in users : u.email = p.email
                THEN /\ resp'.code = HTTP_400_BAD_REQUEST
                     /\ resp'.body = <<"Email already registered">>
                     /\ users' = users
                ELSE (\E u \in users : u.username = p.username)
                        \/ /\ resp'.code = HTTP_201_CREATED
                           /\ Cardinality(users') = Cardinality(users) + 1
    ]_vars

\* C24: a token issued without an explicit lifetime expires the configured
\* number of minutes after its issuance, 30 with the default settings.
C24_DefaultLifetime ==
    [][ ( Answered("create_access_token") /\ resp'.arg = <<>> )
        => /\ resp'.body[1].claims["exp"] = now + settings.access_token_expire_minutes
           /\ settings = DefaultSettings => resp'.body[1].claims["exp"] = now + 30
    ]_vars

\* C25: a successful update_comment is the author's; it leaves the comment
\* with the content asked for and with its id, user_id, book_key and
\* created_at as before, leaves every other comment and every other table
\* as it was, and answers with the comment and the author's username.
C25_UpdateFrame ==
    [][ ( Answered("update_comment") /\ resp'.code = HTTP_200_OK )
        => \E old \in comments, new \in comments' :
              /\ old.id = resp'.id
              /\ old.user_id = resp'.user
              /\ new = [old EXCEPT !.content = new.content, !.updated_at = new.updated_at]
              /\ new.content = resp'.arg
              /\ comments' \ {new} = comments \ {old}
              /\ <<users', user_books', favorites'>> = <<users, user_books, favorites>>
              /\ resp'.body[1].comment = new
              /\ \E u \in users : u.id = old.user_id /\ u.username = resp'.body[1].username
    ]_vars

\* An author changed the content of a comment some time after writing it,
\* while a comment of the other user is stored.
C25_Witness ==
    /\ resp.op = "update_comment"
    /\ resp.code = HTTP_200_OK
    /\ \E c \in comments :
          /\ c.id = resp.id
          /\ c.content = resp.arg
          /\ c.updated_at > c.created_at
    /\ \E c \in comments : c.user_id # resp.user

\* C26: a token that login handed out is answered at the gate either with
\* the user record it was handed out for or with 401, also after that user
\* was deleted and the email registered again.
C26_TokenKeepsItsUser ==
    [][ ( Answered("get_me") /\ resp'.arg # <<>> /\ resp'.arg[1] \in tokens )
        => \/ resp'.code = HTTP_401_UNAUTHORIZED
           \/ /\ resp'.code = HTTP_200_OK
              /\ \E s \in issued_to : s.token = resp'.arg[1] /\ s.user = resp'.body[1]
    ]_vars

\* C27: the book-detail and featured-book routes answer every failed fetch
\* of the book: 404 only when the book is missing upstream, 500 for a
\* timeout, an upstream 5xx or a network error; when the book is fetched,
\* the answer is 200 and names the authors whose lookup succeeded, in their
\* original order.
C27_CatalogFailures ==
    [][ \A op \in {"get_book_details", "get_featured_book"} :
          Answered(op) =>
             LET outcome == resp'.arg[1]
                 outcomes == resp'.arg[2]
                 found == {i \in 1..Len(AuthorKeys) : outcomes[i] = "ok"}
             IN  /\ Stores' = Stores
                 /\ resp'.code = HTTP_404_NOT_FOUND => outcome = "missing"
                 /\ outcome = "missing" /\ op = "get_book_details"
                       => resp'.code = HTTP_404_NOT_FOUND
                 /\ outcome \in {"status_5xx", "timeout", "network"}
                       => resp'.code = HTTP_500_INTERNAL_SERVER_ERROR
                 /\ outcome = "ok" =>
                       /\ resp'.code = HTTP_200_OK
                       /\ Len(resp'.body[1].author_name) = Cardinality(found)
                       /\ \A i \in found : \E k \in 1..Cardinality(found) :
                             /\ resp'.body[1].author_name[k] = AuthorName(AuthorKeys[i])
                             /\ k = Cardinality({j \in found : j <= i})
    ]_vars

\* the credential passes the gate: a token signed with the configured key,
\* not expired, whose subject is the email of a stored user
Resolves(credentials) ==
    /\ credentials # <<>>
    /\ credentials[1].wellformed
    /\ credentials[1].key = settings.secret_key
    /\ "sub" \in DOMAIN credentials[1].claims
    /\ credentials[1].claims["exp"] >= now
    /\ \E u \in users : u.email = credentials[1].claims["sub"]

\* C15: a request to an ownership-scoped operation whose credential is
\* missing, invalid or expired, or names no stored user, is answered 401
\* and leaves every store unchanged; a request that is served acts for a
\* stored user for whom an unexpired token was issued.
C15_GateUnauthorized ==
    [][ \A op \in ScopedOps :
          /\ ( Answered(op) /\ (op = "get_me" \/ resp'.user = 0) /\ ~Resolves(resp'.arg) )
                => /\ resp'.code = HTTP_401_UNAUTHORIZED
                   /\ Stores' = Stores
          /\ ( Answered(op) /\ op # "get_me" /\ resp'.user # 0 /\ resp' # resp )
                => \E u \in users, t \in tokens :
                      /\ u.id = resp'.user
                      /\ t.claims["sub"] = u.email
                      /\ t.claims["exp"] >= now
    ]_vars

\* C16: login issues a token that expires the configured minutes later; a
\* token from login resolves to its subject while the clock is before its
\* expiry and is answered 401 once the clock is past it; a tampered or
\* malformed token and one without a subject are answered 401 at any time.
C16_TokenLifetime ==
    [][ /\ ( Answered("login") /\ resp'.code = HTTP_200_OK )
              => resp'.body[1].claims["exp"] = now + settings.access_token_expire_minutes
        /\ ( Answered("get_me") /\ resp'.arg # <<>> ) =>
              LET token == resp'.arg[1] IN
              /\ ( token \in tokens /\ now < token.claims["exp"] )
                    => /\ resp'.code = HTTP_200_OK
                       /\ resp'.body[1].email = token.claims["sub"]
              /\ ( token \in tokens /\ now > token.claims["exp"] )
                    => resp'.code = HTTP_401_UNAUTHORIZED
              /\ token \notin tokens => resp'.code = HTTP_401_UNAUTHORIZED
    ]_vars

\* A token from login was refused after its expiry.
C16_Witness ==
    /\ resp.op = "get_me"
    /\ resp.code = HTTP_401_UNAUTHORIZED
    /\ resp.arg # <<>>
    /\ resp.arg[1] \in tokens
    /\ now > resp.arg[1].claims["exp"]

============================================================================
